---- MODULE Spec2Model ----
(***************************************************************************)
(* Rentals Inc leasing API: the application store (Application, Document,  *)
(* ReviewResult, AuditEvent), the request handlers (create, get, list,     *)
(* manual decision) and the review workflow with its scoring functions.    *)
(* Every await on the database or on the remote scoring service is a       *)
(* point where another request may run, so each such call is one step.     *)
(* Fraud scores, confidences and thresholds are in hundredths (0.7 = 70).  *)
(***************************************************************************)
EXTENDS Integers, Sequences, FiniteSets, TLC

\* ---------------------------------------------------------------- bounds
NumProcs == 2
MaxApps == 1
MaxAccessApps == 1
MaxAccessDecisions == 1
MaxScore == 100
MaxDecisions == 1
MaxOverrideApps == 2
MaxRaceDecisions == 2
MaxDocs == 7
MaxScoredApps == 1

\* -------------------------------------------------------- program constants
FRAUD_THRESHOLD == 70
MANUAL_REVIEW_THRESHOLD == 40
TINY_FILE_BYTES == 5000
MAX_DOCUMENTS == 6
NaN == -1

Procs == 1..NumProcs

Statuses == {"submitted", "under_review", "approved", "flagged"}
Roles == {"applicant", "reviewer", "admin"}
Actions == {"approve", "flag", "manual_review"}

Null == "null"

\* ------------------------------------------------------------ strings
\* A filename is a tuple of one-character strings, so that toLowerCase and
\* includes act on its characters.
UpperToLower ==
  [A |-> "a", B |-> "b", D |-> "d", F |-> "f", I |-> "i", P |-> "p", S |-> "s"]

toLowerCase(s) ==
  [i \in 1..Len(s) |-> IF s[i] \in DOMAIN UpperToLower THEN UpperToLower[s[i]] ELSE s[i]]

includes(s, sub) ==
  \E i \in 1..(Len(s) - Len(sub) + 1) : SubSeq(s, i, i + Len(sub) - 1) = sub

kw ==
  [id |-> <<"i","d">>,
   passport |-> <<"p","a","s","s","p","o","r","t">>,
   license |-> <<"l","i","c","e","n","s","e">>,
   driver |-> <<"d","r","i","v","e","r">>,
   pay |-> <<"p","a","y">>,
   stub |-> <<"s","t","u","b">>,
   salary |-> <<"s","a","l","a","r","y">>,
   income |-> <<"i","n","c","o","m","e">>,
   employ |-> <<"e","m","p","l","o","y">>,
   letter |-> <<"l","e","t","t","e","r">>,
   offer |-> <<"o","f","f","e","r">>,
   job |-> <<"j","o","b">>,
   bank |-> <<"b","a","n","k">>,
   statement |-> <<"s","t","a","t","e","m","e","n","t">>,
   account |-> <<"a","c","c","o","u","n","t">>,
   reference |-> <<"r","e","f","e","r","e","n","c","e">>,
   landlord |-> <<"l","a","n","d","l","o","r","d">>,
   recommendation |-> <<"r","e","c","o","m","m","e","n","d","a","t","i","o","n">>]

\* ------------------------------------------------------- fallback scorer
\* The classification without the passport keyword.
classifyPassportUnknown(filename) ==
  LET lower == toLowerCase(filename) IN
  IF includes(lower, kw.id)
     \/ includes(lower, kw.license) \/ includes(lower, kw.driver)
    THEN [type |-> "id", confidence |-> 80]
  ELSE IF includes(lower, kw.pay) \/ includes(lower, kw.stub)
     \/ includes(lower, kw.salary) \/ includes(lower, kw.income)
    THEN [type |-> "paystub", confidence |-> 80]
  ELSE IF includes(lower, kw.employ) \/ includes(lower, kw.letter)
     \/ includes(lower, kw.offer) \/ includes(lower, kw.job)
    THEN [type |-> "employment", confidence |-> 75]
  ELSE IF includes(lower, kw.bank) \/ includes(lower, kw.statement)
     \/ includes(lower, kw.account)
    THEN [type |-> "bank_statement", confidence |-> 75]
  ELSE IF includes(lower, kw.reference) \/ includes(lower, kw.landlord)
     \/ includes(lower, kw.recommendation)
    THEN [type |-> "reference", confidence |-> 70]
  ELSE [type |-> "unknown", confidence |-> 50]

\* The type analyzeDocumentsFallback gives one document (first match wins).
classify(filename) ==
  LET lower == toLowerCase(filename) IN
  IF includes(lower, kw.id) \/ includes(lower, kw.passport)
     \/ includes(lower, kw.license) \/ includes(lower, kw.driver)
    THEN [type |-> "id", confidence |-> 80]
  ELSE IF includes(lower, kw.pay) \/ includes(lower, kw.stub)
     \/ includes(lower, kw.salary) \/ includes(lower, kw.income)
    THEN [type |-> "paystub", confidence |-> 80]
  ELSE IF includes(lower, kw.employ) \/ includes(lower, kw.letter)
     \/ includes(lower, kw.offer) \/ includes(lower, kw.job)
    THEN [type |-> "employment", confidence |-> 75]
  ELSE IF includes(lower, kw.bank) \/ includes(lower, kw.statement)
     \/ includes(lower, kw.account)
    THEN [type |-> "bank_statement", confidence |-> 75]
  ELSE IF includes(lower, kw.reference) \/ includes(lower, kw.landlord)
     \/ includes(lower, kw.recommendation)
    THEN [type |-> "reference", confidence |-> 70]
  ELSE [type |-> "unknown", confidence |-> 50]

sig(code, severity) == [code |-> code, severity |-> severity]

\* The signals with one suspicious_file_size signal for every small document.
fallbackSignalsPerTinyDocument(documents) ==
  LET types == {classify(documents[i].filename).type : i \in 1..Len(documents)}
      hasId == "id" \in types
      hasIncome == "paystub" \in types \/ "bank_statement" \in types
      hasEmployment == "employment" \in types
      tinyDocs == {i \in 1..Len(documents) : documents[i].sizeBytes < TINY_FILE_BYTES}
  IN  (IF ~hasId THEN <<sig("missing_id", "high")>> ELSE <<>>)
      \o (IF ~hasIncome THEN <<sig("missing_income_verification", "high")>> ELSE <<>>)
      \o (IF ~hasEmployment
            THEN <<sig("missing_employment_verification", "medium")>> ELSE <<>>)
      \o (IF Len(documents) > MAX_DOCUMENTS
            THEN <<sig("excessive_documents", "low")>> ELSE <<>>)
      \o [i \in 1..Cardinality(tinyDocs) |-> sig("suspicious_file_size", "medium")]

\* The signals, in the order the code pushes them.
fallbackSignals(documents) ==
  LET types == {classify(documents[i].filename).type : i \in 1..Len(documents)}
      hasId == "id" \in types
      hasIncome == "paystub" \in types \/ "bank_statement" \in types
      hasEmployment == "employment" \in types
      tinyDocs == {i \in 1..Len(documents) : documents[i].sizeBytes < TINY_FILE_BYTES}
  IN  (IF ~hasId THEN <<sig("missing_id", "high")>> ELSE <<>>)
      \o (IF ~hasIncome THEN <<sig("missing_income_verification", "high")>> ELSE <<>>)
      \o (IF ~hasEmployment
            THEN <<sig("missing_employment_verification", "medium")>> ELSE <<>>)
      \o (IF Len(documents) > MAX_DOCUMENTS
            THEN <<sig("excessive_documents", "low")>> ELSE <<>>)
      \o (IF tinyDocs # {} THEN <<sig("suspicious_file_size", "medium")>> ELSE <<>>)

\* The count of a severity taking the low signals for medium ones.
severityCountLowAsMedium(signals, severity) ==
  Cardinality({i \in 1..Len(signals) :
                 \/ signals[i].severity = severity
                 \/ severity = "medium" /\ signals[i].severity = "low"})

severityCount(signals, severity) ==
  Cardinality({i \in 1..Len(signals) : signals[i].severity = severity})

min(a, b) == IF a <= b THEN a ELSE b
max(a, b) == IF a >= b THEN a ELSE b

\* x >= y on numbers where x may be NaN (every comparison with NaN is false).
geq(x, y) == x # NaN /\ x >= y

summaryOf(fraudScore) ==
  IF fraudScore >= 70 THEN "high_risk"
  ELSE IF fraudScore >= 40 THEN "some_concerns"
  ELSE "low_risk"

\* The fallback scorer asking for manual review from one medium signal on.
analyzeDocumentsFallbackOneMedium(documents) ==
  LET signals == fallbackSignals(documents)
      highSeverityCount == severityCount(signals, "high")
      mediumSeverityCount == severityCount(signals, "medium")
      fraudScore == min(95, 10 + highSeverityCount * 25 + mediumSeverityCount * 10)
      recommendedAction ==
        IF highSeverityCount >= 2 \/ fraudScore >= 70 THEN "flag"
        ELSE IF highSeverityCount >= 1 \/ mediumSeverityCount >= 1 THEN "manual_review"
        ELSE "approve"
  IN  [fraudScore |-> fraudScore,
       summary |-> summaryOf(fraudScore),
       signals |-> signals,
       documentClassifications |->
         [i \in 1..Len(documents) |-> classify(documents[i].filename)],
       recommendedAction |-> recommendedAction,
       confidenceLevel |-> 60]

analyzeDocumentsFallback(documents) ==
  LET signals == fallbackSignals(documents)
      highSeverityCount == severityCount(signals, "high")
      mediumSeverityCount == severityCount(signals, "medium")
      fraudScore == min(95, 10 + highSeverityCount * 25 + mediumSeverityCount * 10)
      recommendedAction ==
        IF highSeverityCount >= 2 \/ fraudScore >= 70 THEN "flag"
        ELSE IF highSeverityCount >= 1 \/ mediumSeverityCount >= 2 THEN "manual_review"
        ELSE "approve"
  IN  [fraudScore |-> fraudScore,
       summary |-> summaryOf(fraudScore),
       signals |-> signals,
       documentClassifications |->
         [i \in 1..Len(documents) |-> classify(documents[i].filename)],
       recommendedAction |-> recommendedAction,
       confidenceLevel |-> 60]

\* ----------------------------------------------------- remote scoring path
\* An optional value (undefined or null in the code) is <<>>, a present one <<v>>.
orElse(opt, default) == IF opt = <<>> THEN default ELSE opt[1]

\* Math.max(0, Math.min(1, x)); a NaN operand gives NaN.
clamp01(x) == IF x = NaN THEN NaN ELSE max(0, min(100, x))

\* The result of a reply that does not parse, taken for a clean one.
parseErrorResultApproves(documents) ==
  [fraudScore |-> 10,
   summary |-> "ai_issue",
   signals |-> <<sig("ai_parse_error", "medium")>>,
   documentClassifications |->
     [i \in 1..Len(documents) |-> [type |-> "unknown", confidence |-> 30]],
   recommendedAction |-> "approve",
   confidenceLevel |-> 30]

parseErrorResult(documents) ==
  [fraudScore |-> 50,
   summary |-> "ai_issue",
   signals |-> <<sig("ai_parse_error", "medium")>>,
   documentClassifications |->
     [i \in 1..Len(documents) |-> [type |-> "unknown", confidence |-> 30]],
   recommendedAction |-> "manual_review",
   confidenceLevel |-> 30]

\* response: [parsable, fraudScore, recommendedAction, confidenceLevel, signals],
\* the fields of the parsed JSON object being optional.
parseGrokResponse(response, documents) ==
  IF ~response.parsable THEN parseErrorResult(documents)
  ELSE [fraudScore |-> clamp01(orElse(response.fraudScore, 50)),
        summary |-> "analysis_completed",
        signals |-> orElse(response.signals, <<>>),
        documentClassifications |->
          [i \in 1..Len(documents) |-> [type |-> "unknown", confidence |-> 50]],
        recommendedAction |-> orElse(response.recommendedAction, "manual_review"),
        confidenceLevel |-> clamp01(orElse(response.confidenceLevel, 50))]

\* What callGrokAPI does: it throws (no key, HTTP error, network error) or it
\* returns the text of the reply. A reply that parses gives the fields of its
\* JSON object: numbers out of [0, 1], a value that is no number (NaN once
\* Math.min has taken it), an action outside the enum, or no field at all.
GrokOutcomes ==
  { [threw |-> TRUE, parsable |-> FALSE, fraudScore |-> <<>>,
     recommendedAction |-> <<>>, confidenceLevel |-> <<>>, signals |-> <<>>],
    [threw |-> FALSE, parsable |-> FALSE, fraudScore |-> <<>>,
     recommendedAction |-> <<>>, confidenceLevel |-> <<>>, signals |-> <<>>],
    [threw |-> FALSE, parsable |-> TRUE, fraudScore |-> <<20>>,
     recommendedAction |-> <<"approve">>, confidenceLevel |-> <<90>>, signals |-> <<>>],
    [threw |-> FALSE, parsable |-> TRUE, fraudScore |-> <<85>>,
     recommendedAction |-> <<"approve">>, confidenceLevel |-> <<>>, signals |-> <<>>],
    [threw |-> FALSE, parsable |-> TRUE, fraudScore |-> <<150>>,
     recommendedAction |-> <<"flag">>, confidenceLevel |-> <<0 - 20>>, signals |-> <<>>],
    [threw |-> FALSE, parsable |-> TRUE, fraudScore |-> <<NaN>>,
     recommendedAction |-> <<"approve">>, confidenceLevel |-> <<90>>, signals |-> <<>>],
    [threw |-> FALSE, parsable |-> TRUE, fraudScore |-> <<20>>,
     recommendedAction |-> <<"reject">>, confidenceLevel |-> <<90>>, signals |-> <<>>],
    [threw |-> FALSE, parsable |-> TRUE, fraudScore |-> <<>>,
     recommendedAction |-> <<>>, confidenceLevel |-> <<>>, signals |-> <<>>] }

analyzeDocumentsWithAI(documents, outcome) ==
  IF outcome.threw THEN analyzeDocumentsFallback(documents)
  ELSE parseGrokResponse(outcome, documents)


\* The policy with the thresholds at 0.2 and 0.5.
nextStatusOfLowThresholds(aiResult) ==
  IF aiResult.recommendedAction = "flag" \/ geq(aiResult.fraudScore, 50)
    THEN "flagged"
  ELSE IF aiResult.recommendedAction = "manual_review" \/ geq(aiResult.fraudScore, 20)
    THEN "under_review"
  ELSE "approved"

\* The policy with the thresholds exclusive.
nextStatusOfExclusive(aiResult) ==
  IF aiResult.recommendedAction = "flag" \/ aiResult.fraudScore > FRAUD_THRESHOLD
    THEN "flagged"
  ELSE IF aiResult.recommendedAction = "manual_review"
          \/ aiResult.fraudScore > MANUAL_REVIEW_THRESHOLD
    THEN "under_review"
  ELSE "approved"

\* --------------------------------------------------------- decision policy
nextStatusOf(aiResult) ==
  IF aiResult.recommendedAction = "flag" \/ geq(aiResult.fraudScore, FRAUD_THRESHOLD)
    THEN "flagged"
  ELSE IF aiResult.recommendedAction = "manual_review"
          \/ geq(aiResult.fraudScore, MANUAL_REVIEW_THRESHOLD)
    THEN "under_review"
  ELSE "approved"

\* ------------------------------------------------------------ roles
roleValues == <<"applicant", "reviewer", "admin">>

\* parseRole taking a request without the header for an admin's.
parseRoleMissingIsAdmin(rawRole) ==
  IF rawRole = <<>> \/ rawRole = <<"">> THEN "admin"
  ELSE LET normalized ==
             IF rawRole[1] = "Admin" THEN "admin"
             ELSE IF rawRole[1] = "REVIEWER" THEN "reviewer"
             ELSE rawRole[1]
       IN  IF \E i \in 1..Len(roleValues) : roleValues[i] = normalized
             THEN normalized ELSE "applicant"

\* rawRole: the X-User-Role header, <<>> when absent.
parseRole(rawRole) ==
  IF rawRole = <<>> \/ rawRole = <<"">> THEN "applicant"
  ELSE LET normalized ==
             IF rawRole[1] = "Admin" THEN "admin"
             ELSE IF rawRole[1] = "REVIEWER" THEN "reviewer"
             ELSE rawRole[1]
       IN  IF \E i \in 1..Len(roleValues) : roleValues[i] = normalized
             THEN normalized ELSE "applicant"

canCreateApplication(role) == role = "applicant" \/ role = "admin"

canViewApplication(role) == role = "applicant" \/ role = "reviewer" \/ role = "admin"


\* The role check of the decision handler let through for every role.
canMakeDecisionAnyRole(role) == role \in Roles

\* decision.ts: user.role is reviewer or admin
canMakeDecision(role) == role = "reviewer" \/ role = "admin"


\* The applicant check comparing nothing.
isOwnApplicationUnchecked(application, user) == TRUE

\* The applicant check of the session handler: the application is the caller's
\* own by linked account id or by email.
isOwnApplication(application, user) ==
  ~(application.applicantId # user.id /\ application.applicantEmail # user.email)

\* The applicant check of the header handler: X-Applicant-Email is present and
\* equals the application's email.
emailHeaderMatches(application, applicantEmail) ==
  ~(applicantEmail = "" \/ applicantEmail # application.applicantEmail)

\* ------------------------------------------------------- users, sessions
User ==
  [u1 |-> [id |-> "u1", email |-> "ann@x.io", name |-> "Ann", role |-> "applicant"],
   u2 |-> [id |-> "u2", email |-> "bob@x.io", name |-> "Bob", role |-> "applicant"],
   rv |-> [id |-> "rv", email |-> "rev@x.io", name |-> "Rev", role |-> "reviewer"],
   ad |-> [id |-> "ad", email |-> "adm@x.io", name |-> "Adm", role |-> "admin"]]

\* The Session rows: token -> user, and whether expiresAt has passed.
Session ==
  [t_u1 |-> [userId |-> "u1", expired |-> FALSE],
   t_u2 |-> [userId |-> "u2", expired |-> FALSE],
   t_rv |-> [userId |-> "rv", expired |-> FALSE],
   t_ad |-> [userId |-> "ad", expired |-> FALSE],
   t_old |-> [userId |-> "rv", expired |-> TRUE]]

\* The session cookie of a request: <<>> (no cookie) or <<token>>.
Cookies == {<<>>, <<"t_u1">>, <<"t_u2">>, <<"t_rv">>, <<"t_ad">>, <<"t_old">>, <<"t_forged">>}

\* <<>> for null, else <<SessionUser>>.
getSessionUser(cookie) ==
  IF cookie = <<>> THEN <<>>
  ELSE IF cookie[1] \notin DOMAIN Session THEN <<>>
  ELSE IF Session[cookie[1]].expired THEN <<>>
  ELSE <<User[Session[cookie[1]].userId]>>

\* ------------------------------------------------------------ validation
WellFormedEmails == {"ann@x.io", "bob@x.io"}

documentInputSchema(doc) ==
  /\ Len(doc.filename) >= 1
  /\ Len(doc.mimeType) >= 1
  /\ doc.sizeBytes >= 0

\* The schema without its checks of the name and of the documents.
applicationInputSchemaEmailOnly(body) ==
  body.applicantEmail \in WellFormedEmails

applicationInputSchema(body) ==
  /\ Len(body.applicantName) >= 2
  /\ body.applicantEmail \in WellFormedEmails
  /\ Len(body.documents) >= 1
  /\ \A i \in 1..Len(body.documents) : documentInputSchema(body.documents[i])


\* The schema taking any value of the status enum as a decision.
decisionInputSchemaAnyStatus(body) ==
  /\ body.decision \in Statuses
  /\ body.notes = <<>> \/ body.notes[1] <= 500

decisionInputSchema(body) ==
  /\ body.decision \in {"approved", "flagged"}
  /\ body.notes = <<>> \/ body.notes[1] <= 500

\* ------------------------------------------------------------ request inputs
doc(filename, sizeBytes) ==
  [filename |-> filename, mimeType |-> "application/pdf", sizeBytes |-> sizeBytes]

fn ==
  [passport |-> <<"p","a","s","s","p","o","r","t",".","p","d","f">>,
   id_card |-> <<"i","d","_","c","a","r","d",".","p","n","g">>,
   paystub_march |-> <<"p","a","y","s","t","u","b","_","m","a","r","c","h",".","p","d","f">>,
   offer_letter |-> <<"o","f","f","e","r","_","l","e","t","t","e","r",".","p","d","f">>,
   photo |-> <<"p","h","o","t","o",".","j","p","g">>,
   idUpper |-> <<"I","D",".","P","D","F">>]

\* The document lists the requests of this model submit.
DocumentLists ==
  { <<doc(fn.id_card, 40000), doc(fn.paystub_march, 40000), doc(fn.offer_letter, 40000)>>,
    <<doc(fn.passport, 40000)>>,
    <<doc(fn.photo, 2000)>>,
    <<>> }

payload(applicantName, applicantEmail, documents) ==
  [applicantName |-> applicantName, applicantEmail |-> applicantEmail,
   documents |-> documents]

\* Two well-formed payloads, and one malformed in each field.
CreateBodies ==
  { payload("Al", "ann@x.io", <<doc(fn.photo, 2000)>>),
    payload("Al", "bob@x.io", <<doc(fn.photo, 2000)>>),
    payload("A", "ann@x.io", <<doc(fn.photo, 2000)>>),
    payload("Al", "not-an-email", <<doc(fn.photo, 2000)>>),
    payload("Al", "ann@x.io", <<>>),
    payload("Al", "ann@x.io", <<doc(<<>>, 2000)>>),
    payload("Al", "ann@x.io", <<doc(fn.photo, 0 - 1)>>),
    payload("Al", "ann@x.io", <<[doc(fn.photo, 2000) EXCEPT !.mimeType = ""]>>) }

\* notes: <<>> when absent, else <<its length>>.
DecisionBodies ==
  { [decision |-> "approved", notes |-> <<>>],
    [decision |-> "flagged", notes |-> <<12>>],
    [decision |-> "submitted", notes |-> <<>>],
    [decision |-> "under_review", notes |-> <<>>],
    [decision |-> "approved", notes |-> <<501>>] }

RoleHeaders == {<<>>, <<"applicant">>, <<"reviewer">>, <<"admin">>, <<"Admin">>, <<"root">>}

EmailHeaders == {<<>>, <<"ann@x.io">>, <<"bob@x.io">>}

\* ------------------------------------------------------------------ state
VARIABLES
  applications,   \* Application rows with their Document rows; the id is the index
  auditEvents,    \* auditEvents[id]: the AuditEvent rows of an application, oldest first
  reviewResults,  \* reviewResults[id]: its ReviewResult rows, oldest first
  statusWrites,   \* statusWrites[id]: the values written to its status after creation
  aiApiAvailable, \* whether the deployment has a scoring-service key
  pc,             \* pc[p]: where request p stands; "idle" when none is in progress
  loc,            \* loc[p]: the local variables of request p
  call,           \* a pure function under evaluation: its name, argument and result
  response        \* the response the last step sent, with the request it answers;
                  \* NoResponse when that step sent none

vars ==
  <<applications, auditEvents, reviewResults, statusWrites, aiApiAvailable, pc, loc, call,
    response>>

AppIds == 1..Len(applications)


IdleLoc ==
  [kind |-> "none", id |-> 0, actorRole |-> Null, user |-> <<>>, useRealAI |-> FALSE,
   aiResult |-> <<>>, grok |-> <<>>, scoredBy |-> Null, caught |-> FALSE, nextStatus |-> Null, decision |-> Null,
   notes |-> <<>>, application |-> <<>>]

NoCall == [fn |-> "none", arg |-> <<>>, result |-> <<>>]

NoResponse ==
  [kind |-> "none", code |-> 0, role |-> Null, userId |-> Null, email |-> Null,
   id |-> 0, body |-> "none", application |-> <<>>, applications |-> <<>>, total |-> 0,
   rawRole |-> <<>>]

event(actorRole, action, metadata) ==
  [actorRole |-> actorRole, action |-> action, metadata |-> metadata]

take(s, n) == SubSeq(s, 1, min(n, Len(s)))

reverse(s) == [i \in 1..Len(s) |-> s[Len(s) + 1 - i]]

\* findUnique with reviewResults (newest, take 1) and auditEvents (newest, take n).
appView(id, nEvents) ==
  [id |-> id,
   status |-> applications[id].status,
   applicantEmail |-> applications[id].applicantEmail,
   applicantId |-> applications[id].applicantId,
   documents |-> Len(applications[id].documents),
   reviewResults |-> take(reverse(reviewResults[id]), 1),
   auditEvents |-> take(reverse(auditEvents[id]), nEvents)]

Init ==
  /\ applications = <<>>
  /\ auditEvents = <<>>
  /\ reviewResults = <<>>
  /\ statusWrites = <<>>
  /\ aiApiAvailable \in BOOLEAN
  /\ pc = [p \in Procs |-> "idle"]
  /\ loc = [p \in Procs |-> IdleLoc]
  /\ call = NoCall
  /\ response = NoResponse

respond(p, r) ==
  /\ response' = r
  /\ pc' = [pc EXCEPT ![p] = "idle"]
  /\ loc' = [loc EXCEPT ![p] = IdleLoc]

reply(kind, code, role, userId, email, id, body) ==
  [NoResponse EXCEPT !.kind = kind, !.code = code, !.role = role, !.userId = userId,
                     !.email = email, !.id = id, !.body = body]

store == <<applications, auditEvents, reviewResults, statusWrites>>

\* The create handlers answering without waiting for the workflow.
insertApplicationDeferred(p, maxApps, kind, body, applicantId, actorRole, user, metadata) ==
  /\ Len(applications) < maxApps
  /\ applications' = Append(applications,
       [applicantName |-> body.applicantName,
        applicantEmail |-> body.applicantEmail,
        applicantId |-> applicantId,
        status |-> "submitted",
        documents |-> body.documents])
  /\ auditEvents' = Append(auditEvents, <<event(actorRole, "application_submitted", metadata)>>)
  /\ reviewResults' = Append(reviewResults, <<>>)
  /\ statusWrites' = Append(statusWrites, <<>>)
  /\ pc' = [pc EXCEPT ![p] = "cr_refresh"]
  /\ loc' = [loc EXCEPT ![p] = [IdleLoc EXCEPT !.kind = kind,
                                               !.id = Len(applications) + 1,
                                               !.actorRole = actorRole,
                                               !.user = user]]
  /\ response' = NoResponse
  /\ UNCHANGED <<aiApiAvailable>>

\* prisma.application.create with its nested documents and first audit event,
\* then the call of runReviewWorkflow.
insertApplication(p, maxApps, kind, body, applicantId, actorRole, user, metadata) ==
  /\ Len(applications) < maxApps
  /\ applications' = Append(applications,
       [applicantName |-> body.applicantName,
        applicantEmail |-> body.applicantEmail,
        applicantId |-> applicantId,
        status |-> "submitted",
        documents |-> body.documents])
  /\ auditEvents' = Append(auditEvents, <<event(actorRole, "application_submitted", metadata)>>)
  /\ reviewResults' = Append(reviewResults, <<>>)
  /\ statusWrites' = Append(statusWrites, <<>>)
  /\ pc' = [pc EXCEPT ![p] = "wf_status1"]
  /\ loc' = [loc EXCEPT ![p] = [IdleLoc EXCEPT !.kind = kind,
                                               !.id = Len(applications) + 1,
                                               !.actorRole = actorRole,
                                               !.user = user]]
  /\ response' = NoResponse
  /\ UNCHANGED <<aiApiAvailable>>

\* POST /api/applications, role taken from the X-User-Role header.
CreateLegacy(p, inp) ==
  /\ pc[p] = "idle"
  /\ \E rawRole \in inp.roleHeaders, body \in inp.createBodies, dbOk \in inp.dbOk :
       LET role == parseRole(rawRole)
           r(code, text) == reply("createLegacy", code, role, Null, Null, 0, text)
       IN  IF ~canCreateApplication(role)
             THEN respond(p, r(403, "Insufficient permissions"))
                  /\ UNCHANGED <<store, aiApiAvailable>>
           ELSE IF ~applicationInputSchema(body)
             THEN respond(p, r(400, "Invalid payload"))
                  /\ UNCHANGED <<store, aiApiAvailable>>
           ELSE IF ~dbOk
             THEN respond(p, r(500, "exception"))
                  /\ UNCHANGED <<store, aiApiAvailable>>
           ELSE insertApplication(p, inp.maxApps, "createLegacy", body, Null, role, <<>>,
                                  [documentCount |-> Len(body.documents)])

\* POST /api/applications, caller taken from the session cookie.
CreateSession(p, inp) ==
  /\ pc[p] = "idle"
  /\ \E cookie \in inp.createCookies, body \in inp.createBodies, dbOk \in inp.dbOk :
       LET user == getSessionUser(cookie)
           r(code, text) ==
             IF user = <<>> THEN reply("createSession", code, Null, Null, Null, 0, text)
             ELSE reply("createSession", code, user[1].role, user[1].id, user[1].email, 0, text)
       IN  IF user = <<>>
             THEN respond(p, r(401, "Authentication required"))
                  /\ UNCHANGED <<store, aiApiAvailable>>
           ELSE IF user[1].role # "applicant"
             THEN respond(p, r(403, "Only applicants can submit applications"))
                  /\ UNCHANGED <<store, aiApiAvailable>>
           ELSE IF ~applicationInputSchema(body)
             THEN respond(p, r(400, "Invalid payload"))
                  /\ UNCHANGED <<store, aiApiAvailable>>
           ELSE IF ~dbOk
             THEN respond(p, r(500, "exception"))
                  /\ UNCHANGED <<store, aiApiAvailable>>
           ELSE insertApplication(p, inp.maxApps, "createSession", body, user[1].id, user[1].role, user,
                                  [documentCount |-> Len(body.documents),
                                   userId |-> user[1].id])

\* -------------------------------------------------------- review workflow
setStatus(id, status, by) ==
  /\ applications' = [applications EXCEPT ![id].status = status]
  /\ statusWrites' = [statusWrites EXCEPT ![id] = Append(@, [by |-> by, status |-> status])]


\* An upsert in place of the create: the newest event is replaced.
createAuditEventUpsert(id, e) ==
  auditEvents' = [auditEvents EXCEPT ![id] = Append(SubSeq(@, 1, Len(@) - 1), e)]

createAuditEvent(id, e) ==
  auditEvents' = [auditEvents EXCEPT ![id] = Append(@, e)]

goto(p, label) == pc' = [pc EXCEPT ![p] = label]

\* prisma.application.update: status -> under_review
WfSetUnderReview(p) ==
  /\ pc[p] = "wf_status1"
  /\ setStatus(loc[p].id, "under_review", "workflow")
  /\ goto(p, "wf_audit1")
  /\ response' = NoResponse
  /\ UNCHANGED <<auditEvents, reviewResults, aiApiAvailable, loc>>

WfAuditUnderReview(p) ==
  /\ pc[p] = "wf_audit1"
  /\ createAuditEvent(loc[p].id,
       event(loc[p].actorRole, "status_changed", [status |-> "under_review"]))
  /\ goto(p, "wf_analyze")
  /\ response' = NoResponse
  /\ UNCHANGED <<applications, reviewResults, statusWrites, aiApiAvailable, loc>>

\* isAiApiAvailable(): whether the remote scorer is configured.
isAiApiAvailable == aiApiAvailable

\* findUnique with the documents, then the scoring call.
WfAnalyze(p, inp) ==
  /\ pc[p] = "wf_analyze"
  /\ loc[p].id \in AppIds
  /\ LET documents == applications[loc[p].id].documents IN
     IF isAiApiAvailable
       THEN \E outcome \in inp.grokOutcomes :
              loc' = [loc EXCEPT ![p].useRealAI = TRUE,
                                 ![p].grok = <<outcome>>,
                                 ![p].aiResult = <<analyzeDocumentsWithAI(documents, outcome)>>,
                                 ![p].scoredBy = IF outcome.threw THEN "fallback" ELSE "remote"]
       ELSE loc' = [loc EXCEPT ![p].useRealAI = FALSE,
                               ![p].aiResult = <<analyzeDocumentsFallback(documents)>>,
                               ![p].scoredBy = "fallback"]
  /\ goto(p, "wf_audit2")
  /\ response' = NoResponse
  /\ UNCHANGED <<store, aiApiAvailable>>

\* The audit event of the scoring step, by the branch the code is in.
WfAuditAnalysis(p) ==
  /\ pc[p] = "wf_audit2"
  /\ LET aiResult == loc[p].aiResult[1] IN
     createAuditEvent(loc[p].id,
       IF loc[p].useRealAI /\ ~loc[p].caught
         THEN event("admin", "ai_analysis_completed",
                    [provider |-> "openai",
                     confidenceLevel |-> aiResult.confidenceLevel,
                     recommendedAction |-> aiResult.recommendedAction])
       ELSE IF loc[p].useRealAI
         THEN event("admin", "ai_analysis_fallback", [reason |-> "api_error"])
       ELSE event("admin", "rule_based_analysis_completed", [reason |-> "no_api_key"]))
  /\ goto(p, "wf_store")
  /\ response' = NoResponse
  /\ UNCHANGED <<applications, reviewResults, statusWrites, aiApiAvailable, loc>>

\* auditEvent.create throws inside the try block: the catch scores with the
\* fallback and goes on to write the ai_analysis_fallback event.
WfAuditAnalysisThrows(p) ==
  /\ pc[p] = "wf_audit2"
  /\ loc[p].useRealAI /\ ~loc[p].caught
  /\ loc' = [loc EXCEPT ![p].caught = TRUE,
                        ![p].aiResult =
                          <<analyzeDocumentsFallback(applications[loc[p].id].documents)>>,
                        ![p].scoredBy = "fallback"]
  /\ response' = NoResponse
  /\ UNCHANGED <<store, aiApiAvailable, pc>>

\* The store step writing the result twice.
WfStoreResultTwice(p) ==
  /\ pc[p] = "wf_store"
  /\ LET aiResult == loc[p].aiResult[1]
         row == [fraudScore |-> aiResult.fraudScore,
                 summary |-> aiResult.summary,
                 signals |-> aiResult.signals,
                 documentClassifications |-> aiResult.documentClassifications,
                 recommendedAction |-> aiResult.recommendedAction,
                 confidenceLevel |-> aiResult.confidenceLevel,
                 isAiGenerated |-> loc[p].useRealAI]
     IN  reviewResults' = [reviewResults EXCEPT ![loc[p].id] = Append(Append(@, row), row)]
  /\ goto(p, "wf_status2")
  /\ response' = NoResponse
  /\ UNCHANGED <<applications, auditEvents, statusWrites, aiApiAvailable, loc>>

\* prisma.reviewResult.create
WfStoreResult(p) ==
  /\ pc[p] = "wf_store"
  /\ LET aiResult == loc[p].aiResult[1] IN
     reviewResults' = [reviewResults EXCEPT ![loc[p].id] = Append(@,
       [fraudScore |-> aiResult.fraudScore,
        summary |-> aiResult.summary,
        signals |-> aiResult.signals,
        documentClassifications |-> aiResult.documentClassifications,
        recommendedAction |-> aiResult.recommendedAction,
        confidenceLevel |-> aiResult.confidenceLevel,
        isAiGenerated |-> loc[p].useRealAI])]
  /\ goto(p, "wf_status2")
  /\ response' = NoResponse
  /\ UNCHANGED <<applications, auditEvents, statusWrites, aiApiAvailable, loc>>

\* The workflow leaving every approval to a reviewer.
WfSetNextStatusHoldsApprovals(p) ==
  /\ pc[p] = "wf_status2"
  /\ LET policy == nextStatusOf(loc[p].aiResult[1])
         nextStatus == IF policy = "approved" THEN "under_review" ELSE policy
     IN
       /\ setStatus(loc[p].id, nextStatus, "workflow")
       /\ loc' = [loc EXCEPT ![p].nextStatus = nextStatus]
  /\ goto(p, "wf_audit3")
  /\ response' = NoResponse
  /\ UNCHANGED <<auditEvents, reviewResults, aiApiAvailable>>

\* The decision policy and prisma.application.update: status -> nextStatus
WfSetNextStatus(p) ==
  /\ pc[p] = "wf_status2"
  /\ LET nextStatus == nextStatusOf(loc[p].aiResult[1]) IN
       /\ setStatus(loc[p].id, nextStatus, "workflow")
       /\ loc' = [loc EXCEPT ![p].nextStatus = nextStatus]
  /\ goto(p, "wf_audit3")
  /\ response' = NoResponse
  /\ UNCHANGED <<auditEvents, reviewResults, aiApiAvailable>>

\* The workflow_decision event written with the status the run started from.
WfAuditDecisionStale(p) ==
  /\ pc[p] = "wf_audit3"
  /\ LET aiResult == loc[p].aiResult[1] IN
     createAuditEvent(loc[p].id,
       event("admin", "workflow_decision",
             [status |-> "under_review",
              fraudScore |-> aiResult.fraudScore,
              recommendedAction |-> aiResult.recommendedAction,
              confidenceLevel |-> aiResult.confidenceLevel,
              isAutomated |-> TRUE,
              note |-> "This is an AI-suggested action. Human review can override."]))
  /\ goto(p, "cr_refresh")
  /\ response' = NoResponse
  /\ UNCHANGED <<applications, reviewResults, statusWrites, aiApiAvailable, loc>>

WfAuditDecision(p) ==
  /\ pc[p] = "wf_audit3"
  /\ LET aiResult == loc[p].aiResult[1] IN
     createAuditEvent(loc[p].id,
       event("admin", "workflow_decision",
             [status |-> loc[p].nextStatus,
              fraudScore |-> aiResult.fraudScore,
              recommendedAction |-> aiResult.recommendedAction,
              confidenceLevel |-> aiResult.confidenceLevel,
              isAutomated |-> TRUE,
              note |-> "This is an AI-suggested action. Human review can override."]))
  /\ goto(p, "cr_refresh")
  /\ response' = NoResponse
  /\ UNCHANGED <<applications, reviewResults, statusWrites, aiApiAvailable, loc>>

\* findUnique of the refreshed application and the 201 response.
CreateRespond(p) ==
  /\ pc[p] = "cr_refresh"
  /\ LET user == loc[p].user
         r == IF user = <<>>
                THEN reply(loc[p].kind, 201, loc[p].actorRole, Null, Null, loc[p].id, "application")
                ELSE reply(loc[p].kind, 201, user[1].role, user[1].id, user[1].email,
                           loc[p].id, "application")
     IN  respond(p, [r EXCEPT !.application = <<appView(loc[p].id, 0)>>])
  /\ UNCHANGED <<store, aiApiAvailable>>

\* ------------------------------------------------------- manual decision
manualWrites ==
  LET RECURSIVE sum(_)
      sum(n) == IF n = 0 THEN 0
                ELSE sum(n - 1)
                     + Cardinality({i \in 1..Len(statusWrites[n]) : statusWrites[n][i].by = "manual"})
  IN  sum(Len(statusWrites))

\* POST /api/applications/:id/decision up to prisma.application.update
Decision(p, inp) ==
  /\ pc[p] = "idle"
  /\ \E cookie \in inp.decisionCookies, query \in inp.queryIds, body \in inp.decisionBodies,
        dbOk \in inp.dbOk :
       LET user == getSessionUser(cookie)
           id == orElse(query, 0)
           r(code, text) ==
             IF user = <<>> THEN reply("decision", code, Null, Null, Null, id, text)
             ELSE reply("decision", code, user[1].role, user[1].id, user[1].email, id, text)
       IN  IF user = <<>>
             THEN respond(p, r(401, "Authentication required"))
                  /\ UNCHANGED <<store, aiApiAvailable>>
           ELSE IF ~canMakeDecision(user[1].role)
             THEN respond(p, r(403, "Only reviewers and admins can make decisions"))
                  /\ UNCHANGED <<store, aiApiAvailable>>
           ELSE IF query = <<>>
             THEN respond(p, r(400, "Application id is required"))
                  /\ UNCHANGED <<store, aiApiAvailable>>
           ELSE IF ~decisionInputSchema(body)
             THEN respond(p, r(400, "Invalid payload"))
                  /\ UNCHANGED <<store, aiApiAvailable>>
           ELSE IF id \notin AppIds \/ ~dbOk
             THEN respond(p, r(500, "exception"))
                  /\ UNCHANGED <<store, aiApiAvailable>>
           ELSE /\ manualWrites < inp.maxDecisions
                /\ setStatus(id, body.decision, "manual")
                /\ goto(p, "dec_audit")
                /\ loc' = [loc EXCEPT ![p] =
                     [IdleLoc EXCEPT !.kind = "decision", !.id = id, !.user = user,
                                     !.actorRole = user[1].role,
                                     !.decision = body.decision, !.notes = body.notes,
                                     !.application =
                                       <<[id |-> id, status |-> body.decision,
                                          applicantEmail |-> applications[id].applicantEmail,
                                          applicantId |-> applications[id].applicantId,
                                          documents |-> Len(applications[id].documents),
                                          reviewResults |-> <<>>, auditEvents |-> <<>>]>>]]
                /\ response' = NoResponse
                /\ UNCHANGED <<auditEvents, reviewResults, aiApiAvailable>>


\* The decision handler dropping the review results it overrides.
DecisionAuditDropsReviews(p) ==
  /\ pc[p] = "dec_audit"
  /\ LET user == loc[p].user[1] IN
       /\ createAuditEvent(loc[p].id,
            event(user.role, "manual_decision",
                  [decision |-> loc[p].decision, notes |-> loc[p].notes,
                   userId |-> user.id, userName |-> user.name]))
       /\ respond(p, [reply("decision", 200, user.role, user.id, user.email,
                            loc[p].id, "application")
                        EXCEPT !.application = loc[p].application])
  /\ reviewResults' = [reviewResults EXCEPT ![loc[p].id] = <<>>]
  /\ UNCHANGED <<applications, statusWrites, aiApiAvailable>>

\* The decision handler keeping one manual_decision event per application.
DecisionAuditOnce(p) ==
  /\ pc[p] = "dec_audit"
  /\ LET user == loc[p].user[1]
         log == auditEvents[loc[p].id]
     IN
       /\ IF \E i \in 1..Len(log) : log[i].action = "manual_decision"
            THEN UNCHANGED auditEvents
            ELSE createAuditEvent(loc[p].id,
                   event(user.role, "manual_decision",
                         [decision |-> loc[p].decision, notes |-> loc[p].notes,
                          userId |-> user.id, userName |-> user.name]))
       /\ respond(p, [reply("decision", 200, user.role, user.id, user.email,
                            loc[p].id, "application")
                        EXCEPT !.application = loc[p].application])
  /\ UNCHANGED <<applications, reviewResults, statusWrites, aiApiAvailable>>

\* prisma.auditEvent.create of the manual_decision event and the 200 response.
DecisionAudit(p) ==
  /\ pc[p] = "dec_audit"
  /\ LET user == loc[p].user[1] IN
       /\ createAuditEvent(loc[p].id,
            event(user.role, "manual_decision",
                  [decision |-> loc[p].decision, notes |-> loc[p].notes,
                   userId |-> user.id, userName |-> user.name]))
       /\ respond(p, [reply("decision", 200, user.role, user.id, user.email,
                            loc[p].id, "application")
                        EXCEPT !.application = loc[p].application])
  /\ UNCHANGED <<applications, reviewResults, statusWrites, aiApiAvailable>>

\* A failing request that undoes its status writes before it ends.
PrismaThrowsRollsBack(p) ==
  /\ \/ pc[p] \in {"wf_status1", "wf_audit1", "wf_analyze", "wf_store", "wf_status2",
                   "wf_audit3", "cr_refresh", "dec_audit"}
     \/ pc[p] = "wf_audit2" /\ (~loc[p].useRealAI \/ loc[p].caught)
  /\ LET user == loc[p].user
         r == IF user = <<>>
                THEN reply(loc[p].kind, 500, loc[p].actorRole, Null, Null, loc[p].id, "exception")
                ELSE reply(loc[p].kind, 500, user[1].role, user[1].id, user[1].email,
                           loc[p].id, "exception")
     IN  respond(p, r)
  /\ applications' = [applications EXCEPT ![loc[p].id].status = "submitted"]
  /\ UNCHANGED <<auditEvents, reviewResults, statusWrites, aiApiAvailable>>

\* A database call throws outside any try block: the handler's promise rejects
\* and the request ends with the platform's 500.
PrismaThrows(p) ==
  /\ \/ pc[p] \in {"wf_status1", "wf_audit1", "wf_analyze", "wf_store", "wf_status2",
                   "wf_audit3", "cr_refresh", "dec_audit"}
     \/ pc[p] = "wf_audit2" /\ (~loc[p].useRealAI \/ loc[p].caught)
  /\ LET user == loc[p].user
         r == IF user = <<>>
                THEN reply(loc[p].kind, 500, loc[p].actorRole, Null, Null, loc[p].id, "exception")
                ELSE reply(loc[p].kind, 500, user[1].role, user[1].id, user[1].email,
                           loc[p].id, "exception")
     IN  respond(p, r)
  /\ UNCHANGED <<store, aiApiAvailable>>

\* ------------------------------------------------------------ get, list
\* GET /api/applications/:id, caller taken from the session cookie.
GetSession(p, inp) ==
  /\ pc[p] = "idle"
  /\ \E cookie \in inp.getCookies, query \in inp.queryIds, dbOk \in inp.dbOk :
       LET user == getSessionUser(cookie)
           id == orElse(query, 0)
           r(code, text) ==
             IF user = <<>> THEN reply("getSession", code, Null, Null, Null, id, text)
             ELSE reply("getSession", code, user[1].role, user[1].id, user[1].email, id, text)
       IN  respond(p,
             IF user = <<>> THEN r(401, "Authentication required")
             ELSE IF query = <<>> THEN r(400, "Application id is required")
             ELSE IF ~dbOk THEN r(500, "exception")
             ELSE IF id \notin AppIds THEN r(404, "Application not found")
             ELSE IF user[1].role = "applicant" /\ ~isOwnApplication(applications[id], user[1])
               THEN r(403, "You can only view your own applications")
             ELSE [r(200, "application") EXCEPT !.application = <<appView(id, 5)>>])
  /\ UNCHANGED <<store, aiApiAvailable>>

\* GET /api/applications/:id, role and email taken from the request headers.
GetLegacy(p, inp) ==
  /\ pc[p] = "idle"
  /\ \E rawRole \in inp.roleHeaders, emailHeader \in inp.emailHeaders,
        query \in inp.queryIds, dbOk \in inp.dbOk :
       LET role == parseRole(rawRole)
           id == orElse(query, 0)
           applicantEmail == orElse(emailHeader, "")
           r(code, text) == reply("getLegacy", code, role, Null, applicantEmail, id, text)
       IN  respond(p,
             IF ~canViewApplication(role) THEN r(403, "Insufficient permissions")
             ELSE IF query = <<>> THEN r(400, "Application id is required")
             ELSE IF ~dbOk THEN r(500, "exception")
             ELSE IF id \notin AppIds THEN r(404, "Application not found")
             ELSE IF role = "applicant" /\ ~emailHeaderMatches(applications[id], applicantEmail)
               THEN r(403, "Applicant email does not match")
             ELSE [r(200, "application") EXCEPT !.application = <<appView(id, 5)>>])
  /\ UNCHANGED <<store, aiApiAvailable>>

StatusFilters == {<<>>, <<"flagged">>, <<"archived">>}

\* parseInt of a query parameter: <<>> when it is absent or no number (NaN).
LimitParams == {<<>>, <<1>>}
OffsetParams == {<<>>, <<1>>}

\* The elements of s that are in keep, in their order.
filterSeq(s, keep) ==
  LET RECURSIVE f(_)
      f(n) == IF n = 0 THEN <<>>
              ELSE IF s[n] \in keep THEN Append(f(n - 1), s[n]) ELSE f(n - 1)
  IN  f(Len(s))

skip(s, n) == SubSeq(s, min(n, Len(s)) + 1, Len(s))

\* GET /api/applications, role taken from the X-User-Role header.
List(p, inp) ==
  /\ pc[p] = "idle"
  /\ \E rawRole \in inp.roleHeaders, status \in inp.statusFilters,
        limitParam \in inp.limitParams, offsetParam \in inp.offsetParams, dbOk \in inp.dbOk :
       LET role == parseRole(rawRole)
           r(code, text) ==
             [reply("list", code, role, Null, Null, 0, text) EXCEPT !.rawRole = rawRole]
           parsedLimit == orElse(limitParam, 0)
           limit == min(100, IF parsedLimit = 0 THEN 20 ELSE parsedLimit)
           offset == orElse(offsetParam, 0)
           filtered == status # <<>> /\ status[1] \in Statuses
           matches == {id \in AppIds : ~filtered \/ applications[id].status = status[1]}
           ids == [i \in 1..Len(applications) |-> i]
           newestFirst == reverse(filterSeq(ids, matches))
           page == take(skip(newestFirst, offset), limit)
       IN  respond(p,
             IF role # "reviewer" /\ role # "admin"
               THEN r(403, "Only reviewers and admins can view all applications")
             ELSE IF ~dbOk THEN r(500, "exception")
             ELSE [r(200, "applications") EXCEPT
                     !.applications = [i \in 1..Len(page) |-> appView(page[i], 0)],
                     !.total = Len(newestFirst)])
  /\ UNCHANGED <<store, aiApiAvailable>>

\* ---------------------------------------------------------- specification
\* One step of request p, its inputs drawn from the sets of inp.
WriteStep(p, inp) ==
  \/ CreateLegacy(p, inp)
  \/ CreateSession(p, inp)
  \/ WfSetUnderReview(p)
  \/ WfAuditUnderReview(p)
  \/ WfAnalyze(p, inp)
  \/ WfAuditAnalysis(p)
  \/ WfStoreResult(p)
  \/ WfSetNextStatus(p)
  \/ WfAuditDecision(p)
  \/ CreateRespond(p)
  \/ Decision(p, inp)
  \/ DecisionAudit(p)

\* A database call of request p throws.
FailStep(p) ==
  \/ WfAuditAnalysisThrows(p)
  \/ PrismaThrows(p)

ReadStep(p, inp) ==
  \/ GetSession(p, inp)
  \/ GetLegacy(p, inp)
  \/ List(p, inp)

\* req.query.id: <<>> when the request carries none; n + 1 is the id of no application.
QueryIds(n) == {<<>>} \cup {<<i>> : i \in 1..(n + 1)}

\* Requests racing on the store: few callers and payloads, and every
\* interleaving of their steps. A request may stop for good after any step, which
\* is what a database call that throws leaves behind in the store.
RacingInputs ==
  [maxApps |-> MaxApps,
   maxDecisions |-> MaxDecisions,
   createCookies |-> {<<"t_u1">>},
   decisionCookies |-> {<<"t_rv">>},
   getCookies |-> {<<"t_u1">>},
   roleHeaders |-> {<<"admin">>},
   emailHeaders |-> {<<>>},
   createBodies |->
     [applicantName : {"Al"}, applicantEmail : {"ann@x.io"},
      documents : {<<doc(fn.passport, 40000)>>}],
   decisionBodies |-> [decision : {"approved", "submitted"}, notes : {<<>>}],
   queryIds |-> {<<i>> : i \in 1..MaxApps},
   grokOutcomes |-> {o \in GrokOutcomes : o.fraudScore = <<85>>},
   statusFilters |-> {<<>>},
   limitParams |-> {<<>>},
   offsetParams |-> {<<>>},
   dbOk |-> {TRUE}]

\* The client takes the response; the next step follows.
Receive ==
  /\ response # NoResponse
  /\ response' = NoResponse
  /\ UNCHANGED <<store, aiApiAvailable, pc, loc, call>>

Next ==
  \/ /\ response = NoResponse
     /\ \E p \in Procs : WriteStep(p, RacingInputs)
     /\ UNCHANGED call
  \/ Receive

Spec == Init /\ [][Next]_vars

\* Requests one at a time, from every kind of caller and with well-formed and
\* malformed payloads, on a deployment without a scoring-service key.
AccessInputs ==
  [maxApps |-> MaxAccessApps,
   maxDecisions |-> MaxAccessDecisions,
   createCookies |-> Cookies,
   decisionCookies |-> Cookies,
   getCookies |-> Cookies,
   roleHeaders |-> RoleHeaders,
   emailHeaders |-> EmailHeaders,
   createBodies |-> CreateBodies,
   decisionBodies |-> DecisionBodies,
   queryIds |-> QueryIds(MaxAccessApps),
   grokOutcomes |-> GrokOutcomes,
   statusFilters |-> StatusFilters,
   limitParams |-> LimitParams,
   offsetParams |-> OffsetParams,
   dbOk |-> {TRUE}]

InitAccess == Init /\ ~aiApiAvailable

NextAccess ==
  \/ /\ response = NoResponse
     /\ \/ WriteStep(1, AccessInputs)
        \/ ReadStep(1, AccessInputs)
     /\ UNCHANGED call
  \/ Receive

SpecAccess == InitAccess /\ [][NextAccess]_vars

\* One request at a time, every handler, and a database call that may throw at
\* any step.
SerialInputs ==
  [maxApps |-> MaxApps,
   maxDecisions |-> MaxDecisions,
   createCookies |-> {<<"t_u1">>},
   decisionCookies |-> {<<"t_rv">>},
   getCookies |-> {<<"t_u1">>, <<"t_rv">>},
   roleHeaders |-> {<<"admin">>},
   emailHeaders |-> {<<"ann@x.io">>},
   createBodies |->
     [applicantName : {"Al"}, applicantEmail : {"ann@x.io"},
      documents : {<<doc(fn.photo, 2000)>>}],
   decisionBodies |-> [decision : {"approved", "flagged"}, notes : {<<>>}],
   queryIds |-> QueryIds(MaxApps),
   grokOutcomes |-> {o \in GrokOutcomes : o.threw \/ o.fraudScore = <<85>>},
   statusFilters |-> {<<>>, <<"flagged">>},
   limitParams |-> {<<>>},
   offsetParams |-> {<<>>},
   dbOk |-> BOOLEAN]

NextSerial ==
  \/ /\ response = NoResponse
     /\ \/ WriteStep(1, SerialInputs)
        \/ ReadStep(1, SerialInputs)
        \/ FailStep(1)
     /\ UNCHANGED call
  \/ Receive

SpecSerial == Init /\ [][NextSerial]_vars

\* Reviewers and admins deciding on several applications the workflow has
\* scored, one request at a time.
OverrideInputs ==
  [maxApps |-> MaxOverrideApps,
   maxDecisions |-> MaxDecisions,
   createCookies |-> {<<"t_u1">>},
   decisionCookies |-> {<<"t_rv">>, <<"t_ad">>},
   getCookies |-> {<<"t_u1">>},
   roleHeaders |-> {<<"admin">>},
   emailHeaders |-> {<<>>},
   createBodies |->
     [applicantName : {"Al"}, applicantEmail : {"ann@x.io"},
      documents : {<<doc(fn.id_card, 40000), doc(fn.paystub_march, 40000),
                     doc(fn.offer_letter, 40000)>>,
                   <<doc(fn.photo, 2000)>>}],
   decisionBodies |-> {b \in DecisionBodies : b.decision \in {"approved", "flagged"}},
   queryIds |-> QueryIds(MaxOverrideApps),
   grokOutcomes |-> {o \in GrokOutcomes : o.fraudScore = <<85>>},
   statusFilters |-> {<<>>},
   limitParams |-> {<<>>},
   offsetParams |-> {<<>>},
   dbOk |-> {TRUE}]

NextOverride ==
  \/ /\ response = NoResponse
     /\ WriteStep(1, OverrideInputs)
     /\ UNCHANGED call
  \/ Receive

SpecOverride == Init /\ [][NextOverride]_vars

\* One step of a session-based create request, its workflow included.
SessionCreateStep(p, inp) ==
  \/ CreateSession(p, inp)
  \/ WfSetUnderReview(p)
  \/ WfAuditUnderReview(p)
  \/ WfAnalyze(p, inp)
  \/ WfAuditAnalysis(p)
  \/ WfStoreResult(p)
  \/ WfSetNextStatus(p)
  \/ WfAuditDecision(p)
  \/ CreateRespond(p)

\* Decision requests of the reviewer running at the same time, on applications
\* that one client submits: every interleaving of the steps of the requests.
RaceInputs ==
  [maxApps |-> MaxApps,
   maxDecisions |-> MaxRaceDecisions,
   createCookies |-> {<<"t_u1">>},
   decisionCookies |-> {<<"t_rv">>},
   getCookies |-> {<<"t_u1">>},
   roleHeaders |-> {<<"admin">>},
   emailHeaders |-> {<<>>},
   createBodies |->
     [applicantName : {"Al"}, applicantEmail : {"ann@x.io"},
      documents : {<<doc(fn.passport, 40000)>>}],
   decisionBodies |-> [decision : {"approved", "flagged"}, notes : {<<>>}],
   queryIds |-> {<<i>> : i \in 1..MaxApps},
   grokOutcomes |-> {o \in GrokOutcomes : o.fraudScore = <<85>>},
   statusFilters |-> {<<>>},
   limitParams |-> {<<>>},
   offsetParams |-> {<<>>},
   dbOk |-> {TRUE}]

NextRace ==
  \/ /\ response = NoResponse
     /\ \/ SessionCreateStep(1, RaceInputs)
        \/ \E p \in Procs : Decision(p, RaceInputs) \/ DecisionAudit(p)
     /\ UNCHANGED call
  \/ Receive

SpecRace == InitAccess /\ [][NextRace]_vars

\* Applications of one applicant with documents of every mix the fallback scorer
\* tells apart, scored with and without the remote service, whatever it replies.
ScoringDocumentLists ==
  { <<doc(fn.passport, 40000)>>,
    <<doc(fn.passport, 40000), doc(fn.photo, 2000)>>,
    <<doc(fn.id_card, 40000), doc(fn.paystub_march, 40000), doc(fn.offer_letter, 40000)>>,
    <<doc(fn.id_card, 40000), doc(fn.idUpper, 40000), doc(fn.paystub_march, 5000),
      doc(fn.offer_letter, 40000)>>,
    <<doc(fn.id_card, 40000), doc(fn.paystub_march, 40000)>>,
    <<doc(fn.id_card, 40000), doc(fn.paystub_march, 2000)>>,
    <<doc(fn.id_card, 40000), doc(fn.offer_letter, 40000)>>,
    <<doc(fn.photo, 2000)>> }

ScoringInputs ==
  [maxApps |-> MaxScoredApps,
   maxDecisions |-> 0,
   createCookies |-> {<<"t_u1">>},
   decisionCookies |-> {},
   getCookies |-> {<<"t_u1">>},
   roleHeaders |-> {},
   emailHeaders |-> {},
   createBodies |->
     [applicantName : {"Al"}, applicantEmail : {"ann@x.io"},
      documents : ScoringDocumentLists],
   decisionBodies |-> {},
   queryIds |-> {<<i>> : i \in 1..MaxScoredApps},
   grokOutcomes |-> GrokOutcomes,
   statusFilters |-> {},
   limitParams |-> {},
   offsetParams |-> {},
   dbOk |-> {TRUE}]

NextScoring ==
  \/ /\ response = NoResponse
     /\ \/ SessionCreateStep(1, ScoringInputs)
        \/ GetSession(1, ScoringInputs)
     /\ UNCHANGED call
  \/ Receive

SpecScoring == Init /\ [][NextScoring]_vars

\* The fallback scorer alone, on every list of up to MaxDocs documents drawn
\* from an identity document, a paystub, an employment letter and a small
\* file of no recognised kind.
FallbackDocuments ==
  {doc(fn.idUpper, 40000), doc(fn.paystub_march, 40000), doc(fn.offer_letter, 40000),
   doc(fn.photo, 2000)}

FallbackInputs == UNION {[1..n -> FallbackDocuments] : n \in 0..MaxDocs}

InitFallbackCall ==
  /\ applications = <<>>
  /\ auditEvents = <<>>
  /\ reviewResults = <<>>
  /\ statusWrites = <<>>
  /\ aiApiAvailable = FALSE
  /\ pc = [p \in Procs |-> "idle"]
  /\ loc = [p \in Procs |-> IdleLoc]
  /\ response = NoResponse
  /\ call \in [fn : {"analyzeDocumentsFallback"},
               arg : {<<documents>> : documents \in FallbackInputs}, result : {<<>>}]

EvalFallback ==
  /\ call.fn = "analyzeDocumentsFallback"
  /\ call.result = <<>>
  /\ call' = [call EXCEPT !.result = <<analyzeDocumentsFallback(call.arg[1])>>]
  /\ UNCHANGED <<store, aiApiAvailable, pc, loc, response>>

NextFallback == EvalFallback

SpecFallback == InitFallbackCall /\ [][NextFallback]_vars

\* The decision policy alone, on every score and every recommended action.
PolicyInputs ==
  [fraudScore : (0..MaxScore) \cup {NaN},
   recommendedAction : Actions \cup {"reject"}]

InitPolicyCall ==
  /\ applications = <<>>
  /\ auditEvents = <<>>
  /\ reviewResults = <<>>
  /\ statusWrites = <<>>
  /\ aiApiAvailable = FALSE
  /\ pc = [p \in Procs |-> "idle"]
  /\ loc = [p \in Procs |-> IdleLoc]
  /\ response = NoResponse
  /\ call \in [fn : {"nextStatusOf"}, arg : {<<a>> : a \in PolicyInputs}, result : {<<>>}]

EvalPolicy ==
  /\ call.fn = "nextStatusOf"
  /\ call.result = <<>>
  /\ call' = [call EXCEPT !.result = <<nextStatusOf(call.arg[1])>>]
  /\ UNCHANGED <<store, aiApiAvailable, pc, loc, response>>

NextPolicy == EvalPolicy

SpecPolicy == InitPolicyCall /\ [][NextPolicy]_vars

\* ------------------------------------------------------------------ claims
Quiescent == \A p \in Procs : pc[p] = "idle"

isPrefix(s, t) == Len(s) <= Len(t) /\ SubSeq(t, 1, Len(s)) = s

\* The audit event e records the status write w.
records(e, w) ==
  IF w.by = "manual"
    THEN e.action = "manual_decision" /\ e.metadata.decision = w.status
    ELSE e.action \in {"status_changed", "workflow_decision"} /\ e.metadata.status = w.status

C2_NeverBackToSubmitted ==
  [][\A id \in AppIds :
       applications[id].status # "submitted" => applications'[id].status # "submitted"]_vars

C2_Witness ==
  \E id \in AppIds :
    /\ applications[id].status \in {"approved", "flagged"}
    /\ \E i, j \in 1..Len(statusWrites[id]) :
         /\ i < j
         /\ statusWrites[id][i].by = "manual"
         /\ statusWrites[id][j].by = "workflow"

\* C3: when no request is in progress, every write to Application.status made
\* by the workflow or by the manual-decision endpoint has its own AuditEvent of
\* that application recording that status.
C3_EveryStatusWriteAudited ==
  Quiescent =>
    \A id \in AppIds : \A n \in 1..Len(statusWrites[id]) :
      LET w == statusWrites[id][n]
          writes == {i \in 1..Len(statusWrites[id]) : statusWrites[id][i] = w}
          recorded == {i \in 1..Len(auditEvents[id]) : records(auditEvents[id][i], w)}
      IN  Cardinality(writes) <= Cardinality(recorded)

\* C4: no step updates or deletes an AuditEvent: the audit log of every
\* application before a step is a prefix of its audit log after the step.
C4_AuditAppendOnly ==
  [][/\ Len(auditEvents') >= Len(auditEvents)
     /\ \A id \in AppIds : isPrefix(auditEvents[id], auditEvents'[id])]_vars

C4_Witness ==
  \E id \in AppIds :
    /\ Len(auditEvents[id]) >= 5
    /\ auditEvents[id][1].action = "application_submitted"
    /\ auditEvents[id][Len(auditEvents[id])].action = "manual_decision"

\* C5: a manual decision by a reviewer or admin moves the application to the
\* chosen status whatever its status was, and always appends a manual_decision
\* AuditEvent for it.
C5_ManualDecisionAlwaysRecorded ==
  /\ \A p \in Procs :
       pc[p] = "dec_audit" => applications[loc[p].id].status = loc[p].decision
  /\ Quiescent =>
       \A id \in AppIds :
         LET manual == {i \in 1..Len(statusWrites[id]) : statusWrites[id][i].by = "manual"}
             recorded == {i \in 1..Len(auditEvents[id]) :
                            auditEvents[id][i].action = "manual_decision"}
         IN  Cardinality(manual) = Cardinality(recorded)

\* C6: a step of a manual decision changes nothing but the status of its
\* application and appends at most one AuditEvent, a manual_decision, to it:
\* the review results, the earlier audit events, the documents and the rows of
\* every other application stay as they were.
C6_DecisionFrame ==
  [][\A p \in Procs :
       (pc'[p] = "dec_audit" \/ pc[p] = "dec_audit") =>
         LET id == IF pc[p] = "dec_audit" THEN loc[p].id ELSE loc'[p].id IN
           /\ reviewResults' = reviewResults
           /\ Len(applications') = Len(applications)
           /\ \A other \in AppIds \ {id} :
                /\ applications'[other] = applications[other]
                /\ auditEvents'[other] = auditEvents[other]
           /\ applications' = [applications EXCEPT ![id].status = applications'[id].status]
           /\ isPrefix(auditEvents[id], auditEvents'[id])
           /\ Len(auditEvents'[id]) <= Len(auditEvents[id]) + 1
           /\ Len(auditEvents'[id]) = Len(auditEvents[id]) + 1 =>
                auditEvents'[id][Len(auditEvents'[id])].action = "manual_decision"]_vars

C6_Witness ==
  /\ response.kind = "decision"
  /\ response.code = 200
  /\ Len(applications) = 2
  /\ LET id == response.id IN
       /\ applications[id].status = "approved"
       /\ Len(reviewResults[id]) = 1
       /\ reviewResults[id][1].recommendedAction = "flag"
       /\ \E i \in 1..Len(auditEvents[id]) :
            /\ auditEvents[id][i].action = "workflow_decision"
            /\ auditEvents[id][i].metadata.status = "flagged"
       /\ auditEvents[id][Len(auditEvents[id])].action = "manual_decision"

\* The application the get request of the last response asked for is the
\* caller's own: by account id or email (session), by the email header (legacy).
callerOwns(r) ==
  IF r.kind = "getSession"
    THEN \/ applications[r.id].applicantId = r.userId
         \/ applications[r.id].applicantEmail = r.email
    ELSE applications[r.id].applicantEmail = r.email

isGet(r) == r.kind \in {"getSession", "getLegacy"}

\* C7: get-by-id gives an applicant the application only if its applicant
\* identity matches the caller; an existing application matching neither ends
\* in 403 with no application data; reviewers and admins get any application.
C7_ApplicantSeesOwnOnly ==
  isGet(response) =>
    /\ (response.role = "applicant" /\ response.code = 200) =>
         response.id \in AppIds /\ callerOwns(response)
    /\ (response.role = "applicant" /\ response.id \in AppIds /\ ~callerOwns(response)) =>
         response.code = 403 /\ response.application = <<>>
    /\ (response.role \in {"reviewer", "admin"} /\ response.id \in AppIds) =>
         /\ response.code = 200
         /\ response.application # <<>>
         /\ response.application[1].id = response.id
    /\ response.application # <<>> => response.code = 200

C7_Witness ==
  /\ response.kind = "getSession"
  /\ response.role = "applicant"
  /\ response.id \in AppIds
  /\ applications[response.id].applicantId \notin {Null, response.userId}
  /\ response.code = 403

\* C8: for an applicant, get-by-id of an application they may not see is an
\* authorization failure, the same whether the id is another applicant's
\* application or the id of no application.
C8_NoExistenceLeak ==
  (/\ isGet(response)
   /\ response.role = "applicant"
   /\ response.id # 0
   /\ response.id \notin AppIds \/ ~callerOwns(response)) =>
     response.code = 403

\* C9: create-application is permitted exactly for the roles applicant and
\* admin: a request of theirs is never refused for its role, and a reviewer's
\* is refused (403) with no Application, Document or AuditEvent created.
C9_CreateForApplicantAndAdmin ==
  [][response'.kind \in {"createLegacy", "createSession"} =>
       /\ response'.role \in {"applicant", "admin"} => response'.code # 403
       /\ response'.role = "reviewer" =>
            /\ response'.code = 403
            /\ applications' = applications
            /\ auditEvents' = auditEvents]_vars

\* C10: a manual-decision request of an unauthenticated caller is answered 401
\* and that of an applicant 403, and the step answering it changes neither an
\* application nor an audit log.
C10_DecisionDeniedWithoutEffect ==
  [][(response'.kind = "decision" /\ response'.role \notin {"reviewer", "admin"}) =>
       /\ response'.role = Null => response'.code = 401
       /\ response'.role = "applicant" => response'.code = 403
       /\ response'.role \in {Null, "applicant"}
       /\ applications' = applications
       /\ auditEvents' = auditEvents
       /\ statusWrites' = statusWrites]_vars

C10_Witness ==
  /\ response.kind = "decision"
  /\ response.role = "applicant"
  /\ response.code = 403
  /\ response.id \in AppIds

\* C11: listing all applications is for the roles reviewer and admin only: a
\* request whose role header is applicant, missing or unrecognised is answered
\* 403 and carries no application data.
C11_ListForReviewersOnly ==
  response.kind = "list" =>
    LET raw == response.rawRole
        privileged == raw # <<>> /\ raw[1] \in {"reviewer", "REVIEWER", "admin", "Admin"}
    IN  /\ response.code = 200 => privileged
        /\ ~privileged =>
             /\ response.code = 403
             /\ response.applications = <<>>
             /\ response.application = <<>>
             /\ response.total = 0

C11_Witness ==
  /\ response.kind = "list"
  /\ response.rawRole = <<"root">>
  /\ response.code = 403
  /\ Len(applications) >= 1

\* The row of an application holds a payload the schema of the API admits.
wellFormedRow(row) ==
  /\ Len(row.applicantName) >= 2
  /\ row.applicantEmail \in {"ann@x.io", "bob@x.io"}
  /\ Len(row.documents) >= 1
  /\ \A i \in 1..Len(row.documents) :
       /\ Len(row.documents[i].filename) >= 1
       /\ Len(row.documents[i].mimeType) >= 1
       /\ row.documents[i].sizeBytes >= 0

\* C12: a request that fails validation is answered 400 and changes no
\* Application, Document, ReviewResult or AuditEvent: no malformed payload ever
\* becomes an application, and no decision other than approved or flagged, or
\* with notes longer than 500 characters, is ever written.
C12_InvalidPayloadNoMutation ==
  [][/\ (response'.code = 400
         /\ response'.kind \in {"createLegacy", "createSession", "decision"}) =>
          /\ applications' = applications
          /\ auditEvents' = auditEvents
          /\ reviewResults' = reviewResults
          /\ response'.body \in {"Invalid payload", "Application id is required"}
     /\ Len(applications') > Len(applications) =>
          wellFormedRow(applications'[Len(applications')])
     /\ \A p \in Procs :
          (pc[p] = "idle" /\ pc'[p] = "dec_audit") =>
            /\ loc'[p].decision \in {"approved", "flagged"}
            /\ loc'[p].notes = <<>> \/ loc'[p].notes[1] <= 500]_vars

C12_Witness ==
  /\ response.kind = "decision"
  /\ response.code = 400
  /\ response.body = "Invalid payload"
  /\ response.role = "reviewer"
  /\ response.id \in AppIds
  /\ applications[response.id].status # "submitted"

\* The audit events of an application that are not manual decisions, and the
\* status writes that are the workflow's, each in their order.
workflowEvents(id) ==
  LET log == auditEvents[id] IN
  filterSeq(log, {log[i] : i \in {j \in 1..Len(log) : log[j].action # "manual_decision"}})

workflowWrites(id) ==
  LET writes == statusWrites[id] IN
  filterSeq(writes, {writes[i] : i \in {j \in 1..Len(writes) : writes[j].by = "workflow"}})

\* The status the decision policy gives a stored review result.
policyStatus(result) ==
  IF result.recommendedAction = "flag"
     \/ (result.fraudScore # NaN /\ result.fraudScore >= 70) THEN "flagged"
  ELSE IF result.recommendedAction = "manual_review"
     \/ (result.fraudScore # NaN /\ result.fraudScore >= 40) THEN "under_review"
  ELSE "approved"

ScoringEvents ==
  {"ai_analysis_completed", "ai_analysis_fallback", "rule_based_analysis_completed"}

\* C13: the workflow writes, in this order: status under_review, the
\* status_changed event, one event of the scoring path, one ReviewResult, the
\* status the policy gives that result, and the workflow_decision event with
\* that status, the score, the recommended action and the note; at every
\* position of a run exactly the writes before it have happened.
C13_WorkflowWriteOrder ==
  \A p \in Procs :
    pc[p] \in {"wf_status1", "wf_audit1", "wf_analyze", "wf_audit2", "wf_store",
               "wf_status2", "wf_audit3", "cr_refresh"} =>
      LET id == loc[p].id
          log == workflowEvents(id)
          writes == workflowWrites(id)
          results == reviewResults[id]
          at(labels) == pc[p] \in labels
      IN  /\ log[1].action = "application_submitted"
          /\ Len(writes) = IF at({"wf_status1"}) THEN 0
                           ELSE IF at({"wf_audit3", "cr_refresh"}) THEN 2 ELSE 1
          /\ Len(log) = IF at({"wf_status1", "wf_audit1"}) THEN 1
                        ELSE IF at({"wf_analyze", "wf_audit2"}) THEN 2
                        ELSE IF at({"cr_refresh"}) THEN 4 ELSE 3
          /\ Len(results) = IF at({"wf_status2", "wf_audit3", "cr_refresh"}) THEN 1 ELSE 0
          /\ Len(writes) >= 1 => writes[1].status = "under_review"
          /\ Len(log) >= 2 =>
               /\ log[2].action = "status_changed"
               /\ log[2].metadata.status = "under_review"
          /\ Len(log) >= 3 => log[3].action \in ScoringEvents
          /\ Len(writes) = 2 => writes[2].status = policyStatus(results[1])
          /\ Len(log) = 4 =>
               /\ log[4].action = "workflow_decision"
               /\ log[4].metadata.status = writes[2].status
               /\ log[4].metadata.fraudScore = results[1].fraudScore
               /\ log[4].metadata.recommendedAction = results[1].recommendedAction
               /\ log[4].metadata.note =
                    "This is an AI-suggested action. Human review can override."

C13_Witness ==
  \E p \in Procs :
    /\ pc[p] = "cr_refresh"
    /\ loc[p].useRealAI
    /\ workflowWrites(loc[p].id)[2].status = "flagged"
    /\ workflowEvents(loc[p].id)[3].action = "ai_analysis_completed"

\* C14: when the remote scoring service is configured and its call fails, the
\* workflow scores with the local fallback and goes on, and the AuditEvent of
\* the scoring step records the fallback path, not the remote one.
C14_FallbackPathRecorded ==
  \A p \in Procs :
    (pc[p] = "wf_store" /\ loc[p].useRealAI /\ loc[p].scoredBy = "fallback") =>
      LET log == workflowEvents(loc[p].id) IN
        /\ loc[p].aiResult = <<analyzeDocumentsFallback(applications[loc[p].id].documents)>>
        /\ log[Len(log)].action = "ai_analysis_fallback"

\* C15: isAiGenerated of a ReviewResult is true only if the remote scoring
\* service produced the stored score, and false whenever the local fallback
\* scorer produced it, a fallback after a remote failure included.
C15_ProvenanceFlag ==
  \A p \in Procs :
    pc[p] = "wf_status2" =>
      LET results == reviewResults[loc[p].id]
          stored == results[Len(results)]
      IN  stored.isAiGenerated <=> loc[p].scoredBy = "remote"

\* C16: a workflow that ends in an unhandled exception after its first status
\* write ends the request with a failure (500) and rolls nothing back: the
\* application keeps the status written so far (under_review until the final
\* status write) and the rows written so far stay.
C16_FailureKeepsWrites ==
  [][\A p \in Procs :
       (/\ pc[p] \in {"wf_audit1", "wf_analyze", "wf_audit2", "wf_store", "wf_status2",
                      "wf_audit3"}
        /\ pc'[p] = "idle") =>
          LET id == loc[p].id IN
            /\ response'.code = 500
            /\ response'.kind = loc[p].kind
            /\ response'.application = <<>>
            /\ applications' = applications
            /\ auditEvents' = auditEvents
            /\ reviewResults' = reviewResults
            /\ pc[p] # "wf_audit3" => applications'[id].status = "under_review"
            /\ pc[p] = "wf_audit3" =>
                 applications'[id].status = policyStatus(reviewResults'[id][1])]_vars

C16_Witness ==
  /\ response.kind = "createSession"
  /\ response.code = 500
  /\ response.id \in AppIds
  /\ applications[response.id].status = "under_review"
  /\ Len(reviewResults[response.id]) = 1
  /\ Len(auditEvents[response.id]) = 3

\* C17: with manual decisions on one application running at the same time,
\* the status is that of the last status write, and every decision request
\* that wrote the status and finished has appended its own manual_decision
\* event: the events are as many as the finished decision requests.
C17_LastWriteWinsAllAudited ==
  \A id \in AppIds :
    LET writes == statusWrites[id]
        log == auditEvents[id]
    IN  /\ writes # <<>> => applications[id].status = writes[Len(writes)].status
        /\ \A d \in {"approved", "flagged"} :
             LET written == {i \in 1..Len(writes) :
                               writes[i].by = "manual" /\ writes[i].status = d}
                 running == {p \in Procs :
                               pc[p] = "dec_audit" /\ loc[p].id = id /\ loc[p].decision = d}
                 recorded == {i \in 1..Len(log) :
                                log[i].action = "manual_decision" /\ log[i].metadata.decision = d}
             IN  Cardinality(recorded) = Cardinality(written) - Cardinality(running)

C17_Witness ==
  /\ Quiescent
  /\ \E id \in AppIds :
       LET writes == statusWrites[id]
           log == auditEvents[id]
       IN  /\ applications[id].status = "flagged"
           /\ \E i, j \in 1..Len(writes) :
                /\ i < j
                /\ writes[i] = [by |-> "manual", status |-> "approved"]
                /\ writes[j] = [by |-> "manual", status |-> "flagged"]
           /\ \E i, j \in 1..Len(log) :
                /\ i < j
                /\ log[i].action = "manual_decision" /\ log[i].metadata.decision = "flagged"
                /\ log[j].action = "manual_decision" /\ log[j].metadata.decision = "approved"

WorkflowLabels ==
  {"wf_status1", "wf_audit1", "wf_analyze", "wf_audit2", "wf_store", "wf_status2",
   "wf_audit3", "cr_refresh"}

\* C18: a create request runs the whole workflow before it responds: when it
\* answers 201 the application is under_review, approved or flagged, has exactly
\* one ReviewResult and its audit log holds application_submitted, the
\* under_review status_changed and a workflow_decision; once no request is in
\* the workflow of an application, no workflow write on it happens any more.
C18_WorkflowBeforeResponse ==
  [][/\ (response'.kind \in {"createLegacy", "createSession"} /\ response'.code = 201) =>
          LET id == response'.id
              log == auditEvents'[id]
              has(action) == \E i \in 1..Len(log) : log[i].action = action
          IN  /\ applications'[id].status \in {"under_review", "approved", "flagged"}
              /\ response'.application # <<>>
              /\ response'.application[1].id = id
              /\ response'.application[1].status \in {"under_review", "approved", "flagged"}
              /\ Len(response'.application[1].reviewResults) = 1
              /\ Len(reviewResults'[id]) = 1
              /\ log[1].action = "application_submitted"
              /\ \E i \in 1..Len(log) :
                   /\ log[i].action = "status_changed"
                   /\ log[i].metadata.status = "under_review"
              /\ has("workflow_decision")
              /\ \A p \in Procs : ~(pc'[p] \in WorkflowLabels /\ loc'[p].id = id)
     /\ \A id \in AppIds :
          (\A p \in Procs : ~(pc[p] \in WorkflowLabels /\ loc[p].id = id)) =>
            /\ reviewResults'[id] = reviewResults[id]
            /\ \A p \in Procs : ~(pc'[p] \in WorkflowLabels /\ loc'[p].id = id)
            /\ \A i \in 1..Len(statusWrites'[id]) :
                 i > Len(statusWrites[id]) => statusWrites'[id][i].by = "manual"
            /\ \A i \in 1..Len(auditEvents'[id]) :
                 i > Len(auditEvents[id]) => auditEvents'[id][i].action = "manual_decision"]_vars

C18_Witness ==
  /\ response.kind = "createSession"
  /\ response.code = 201
  /\ applications[response.id].status = "approved"
  /\ response.application[1].status = "approved"
  /\ \E i \in 1..Len(statusWrites[response.id]) : statusWrites[response.id][i].by = "manual"
  /\ Len(reviewResults[response.id]) = 1

\* The signals of a severity among those a scoring result carries.
signalsOf(result, severity) ==
  {i \in 1..Len(result.signals) : result.signals[i].severity = severity}

fallbackReturned == call.fn = "analyzeDocumentsFallback" /\ call.result # <<>>

\* C19: the fallback scorer's fraudScore is min(0.95, 0.1 + 0.25 * high +
\* 0.1 * medium) over the signals it emitted, so it lies in [0, 0.95] and the
\* low-severity signals add nothing.
C19_FallbackScoreFormula ==
  fallbackReturned =>
    LET result == call.result[1]
        high == Cardinality(signalsOf(result, "high"))
        medium == Cardinality(signalsOf(result, "medium"))
        sum == 10 + 25 * high + 10 * medium
    IN  /\ result.fraudScore = IF sum > 95 THEN 95 ELSE sum
        /\ result.fraudScore >= 0
        /\ result.fraudScore <= 95

C19_Witness ==
  /\ fallbackReturned
  /\ signalsOf(call.result[1], "low") # {}
  /\ signalsOf(call.result[1], "medium") = {}
  /\ signalsOf(call.result[1], "high") = {}
  /\ call.result[1].fraudScore = 10

\* C20: the fallback scorer recommends flag when it emitted two or more high
\* signals or the score is at least 0.7, else manual_review when it emitted a
\* high signal or two or more medium ones, else approve.
C20_FallbackRecommendation ==
  fallbackReturned =>
    LET result == call.result[1]
        high == Cardinality(signalsOf(result, "high"))
        medium == Cardinality(signalsOf(result, "medium"))
    IN  result.recommendedAction =
          IF high >= 2 \/ result.fraudScore >= 70 THEN "flag"
          ELSE IF high >= 1 \/ medium >= 2 THEN "manual_review"
          ELSE "approve"

C20_Witness ==
  /\ fallbackReturned
  /\ signalsOf(call.result[1], "high") = {}
  /\ Cardinality(signalsOf(call.result[1], "medium")) = 2
  /\ call.result[1].recommendedAction = "manual_review"

\* The file names of a list of documents, and the codes of a result's signals.
filenamesOf(documents) == {documents[i].filename : i \in 1..Len(documents)}

codesOf(result) == {result.signals[i].code : i \in 1..Len(result.signals)}

IdentityFiles == {fn.passport, fn.id_card, fn.idUpper}
IncomeFiles == {fn.paystub_march}
EmploymentFiles == {fn.offer_letter}

\* Request p holds a result of the fallback scorer on its application's documents.
fallbackScored(p) ==
  /\ loc[p].aiResult # <<>>
  /\ loc[p].scoredBy = "fallback"
  /\ loc[p].id \in AppIds

\* C21: on documents with an identity document but no income and no employment
\* document, the fallback scorer emits missing_income_verification and
\* missing_employment_verification and not missing_id, recommends manual_review
\* or flag, and the application is never approved by the workflow.
C21_IdentityOnlyNeverApproved ==
  \A p \in Procs :
    fallbackScored(p) =>
      LET names == filenamesOf(applications[loc[p].id].documents)
          result == loc[p].aiResult[1]
      IN  (/\ names \cap IdentityFiles # {}
           /\ names \cap (IncomeFiles \cup EmploymentFiles) = {}) =>
            /\ "missing_income_verification" \in codesOf(result)
            /\ "missing_employment_verification" \in codesOf(result)
            /\ "missing_id" \notin codesOf(result)
            /\ result.recommendedAction \in {"manual_review", "flag"}
            /\ loc[p].nextStatus # "approved"
            /\ applications[loc[p].id].status # "approved"

C21_Witness ==
  \E p \in Procs :
    /\ fallbackScored(p)
    /\ pc[p] = "cr_refresh"
    /\ filenamesOf(applications[loc[p].id].documents) = {fn.passport}
    /\ loc[p].aiResult[1].recommendedAction = "manual_review"
    /\ applications[loc[p].id].status = "under_review"

\* C22: on documents with an identity, an income and an employment document,
\* at most 6 of them and none smaller than 5000 bytes, the fallback scorer emits
\* no signal, scores 0.1 and recommends approve, and the workflow ends with the
\* status approved.
C22_CompleteFileApproved ==
  \A p \in Procs :
    fallbackScored(p) =>
      LET documents == applications[loc[p].id].documents
          names == filenamesOf(documents)
          result == loc[p].aiResult[1]
      IN  (/\ names \cap IdentityFiles # {}
           /\ names \cap IncomeFiles # {}
           /\ names \cap EmploymentFiles # {}
           /\ Len(documents) <= 6
           /\ \A i \in 1..Len(documents) : documents[i].sizeBytes >= 5000) =>
            /\ result.signals = <<>>
            /\ result.fraudScore = 10
            /\ result.recommendedAction = "approve"
            /\ pc[p] \in {"wf_audit3", "cr_refresh"} =>
                 /\ loc[p].nextStatus = "approved"
                 /\ applications[loc[p].id].status = "approved"

C22_Witness ==
  \E p \in Procs :
    /\ fallbackScored(p)
    /\ pc[p] = "cr_refresh"
    /\ filenamesOf(applications[loc[p].id].documents)
         = {fn.id_card, fn.paystub_march, fn.offer_letter}
    /\ loc[p].aiResult[1].fraudScore = 10
    /\ applications[loc[p].id].status = "approved"

\* The signals of a code among those a scoring result carries.
signalsCoded(result, code) ==
  {i \in 1..Len(result.signals) : result.signals[i].code = code}

\* C23: the fallback scorer emits excessive_documents (low) exactly when there
\* are more than 6 documents, and exactly one suspicious_file_size (medium)
\* when a document is smaller than 5000 bytes, however many are; the score is
\* the formula's with the file-size signal counted once and the
\* excessive_documents signal not at all, and the action follows from it.
C23_ExcessAndTinySignals ==
  fallbackReturned =>
    LET documents == call.arg[1]
        result == call.result[1]
        excess == signalsCoded(result, "excessive_documents")
        tiny == signalsCoded(result, "suspicious_file_size")
        anyTiny == \E i \in 1..Len(documents) : documents[i].sizeBytes < 5000
        high == Cardinality(signalsCoded(result, "missing_id"))
                  + Cardinality(signalsCoded(result, "missing_income_verification"))
        medium == Cardinality(signalsCoded(result, "missing_employment_verification"))
                    + (IF anyTiny THEN 1 ELSE 0)
        sum == 10 + 25 * high + 10 * medium
        score == IF sum > 95 THEN 95 ELSE sum
    IN  /\ Cardinality(excess) = IF Len(documents) > 6 THEN 1 ELSE 0
        /\ \A i \in excess : result.signals[i].severity = "low"
        /\ Cardinality(tiny) = IF anyTiny THEN 1 ELSE 0
        /\ \A i \in tiny : result.signals[i].severity = "medium"
        /\ result.fraudScore = score
        /\ result.recommendedAction =
             IF high >= 2 \/ score >= 70 THEN "flag"
             ELSE IF high >= 1 \/ medium >= 2 THEN "manual_review"
             ELSE "approve"

\* Seven documents, one of them of 2000 bytes: both signals, and the score 0.2
\* of one medium signal.
C23_Witness ==
  /\ fallbackReturned
  /\ Len(call.arg[1]) = 7
  /\ Cardinality({i \in 1..7 : call.arg[1][i].sizeBytes = 2000}) = 1
  /\ codesOf(call.result[1]) = {"excessive_documents", "suspicious_file_size"}
  /\ call.result[1].fraudScore = 20
  /\ call.result[1].recommendedAction = "approve"

\* Request p holds the result parseGrokResponse gave for the reply of the
\* remote service.
remoteScored(p) ==
  /\ loc[p].aiResult # <<>>
  /\ loc[p].grok # <<>>
  /\ ~loc[p].grok[1].threw
  /\ ~loc[p].caught
  /\ loc[p].id \in AppIds

\* C24: for a reply that is no JSON, parseGrokResponse returns a well-formed
\* result with the action manual_review and the synthetic ai_parse_error signal,
\* and the workflow leaves the application under_review.
C24_UnparsableReplyUnderReview ==
  \A p \in Procs :
    (remoteScored(p) /\ ~loc[p].grok[1].parsable) =>
      LET result == loc[p].aiResult[1] IN
        /\ result.recommendedAction = "manual_review"
        /\ "ai_parse_error" \in codesOf(result)
        /\ result.fraudScore \in 0..100
        /\ result.confidenceLevel \in 0..100
        /\ Len(result.documentClassifications) = Len(applications[loc[p].id].documents)
        /\ applications[loc[p].id].status # "approved"
        /\ pc[p] \in {"wf_audit3", "cr_refresh"} =>
             /\ loc[p].nextStatus = "under_review"
             /\ applications[loc[p].id].status = "under_review"

C24_Witness ==
  \E p \in Procs :
    /\ remoteScored(p)
    /\ ~loc[p].grok[1].parsable
    /\ pc[p] = "cr_refresh"
    /\ Len(reviewResults[loc[p].id]) = 1
    /\ "ai_parse_error" \in codesOf(reviewResults[loc[p].id][1])
    /\ applications[loc[p].id].status = "under_review"

\* C25: every result of the scoring function, on the remote path and on the
\* fallback path, has its fraudScore and its confidenceLevel in [0, 1] and its
\* recommendedAction among approve, flag and manual_review, whatever the remote
\* service replied.
C25_ResultContract ==
  \A p \in Procs :
    loc[p].aiResult # <<>> =>
      LET result == loc[p].aiResult[1] IN
        /\ result.fraudScore \in 0..100
        /\ result.confidenceLevel \in 0..100
        /\ result.recommendedAction \in {"approve", "flag", "manual_review"}

\* The ReviewResult an application row of a response may carry: the newest of
\* the application's, none when it has none.
newest(results) == IF results = <<>> THEN <<>> ELSE <<results[Len(results)]>>

\* C26: ReviewResults are append-only: no step changes or removes one, a run of
\* the workflow adds exactly one at its store step, and the result get, list
\* and create report for an application is its most recently created one.
C26_ReviewResultsAppendOnly ==
  [][/\ Len(reviewResults') >= Len(reviewResults)
     /\ \A id \in 1..Len(reviewResults) :
          /\ isPrefix(reviewResults[id], reviewResults'[id])
          /\ Len(reviewResults'[id]) <= Len(reviewResults[id]) + 1
     /\ \A p \in Procs :
          /\ (pc[p] = "wf_store" /\ pc'[p] = "wf_status2") =>
               Len(reviewResults'[loc[p].id]) = Len(reviewResults[loc[p].id]) + 1
          /\ pc'[p] \in {"wf_status1", "wf_audit1", "wf_analyze", "wf_audit2", "wf_store"} =>
               Len(reviewResults'[loc'[p].id]) = 0
          /\ pc'[p] \in {"wf_status2", "wf_audit3", "cr_refresh"} =>
               Len(reviewResults'[loc'[p].id]) = 1
     /\ (response'.code \in {200, 201} /\ response'.kind # "decision") =>
          /\ \A i \in 1..Len(response'.application) :
               response'.application[i].reviewResults
                 = newest(reviewResults'[response'.application[i].id])
          /\ \A i \in 1..Len(response'.applications) :
               response'.applications[i].reviewResults
                 = newest(reviewResults'[response'.applications[i].id])
    ]_vars

\* A manual decision later, get still reports the result the workflow stored.
C26_Witness ==
  /\ isGet(response)
  /\ response.code = 200
  /\ reviewResults[response.id] # <<>>
  /\ response.application[1].reviewResults = <<reviewResults[response.id][1]>>
  /\ applications[response.id].status = "approved"
  /\ \E i \in 1..Len(statusWrites[response.id]) : statusWrites[response.id][i].by = "manual"
  /\ reviewResults[response.id][1].recommendedAction = "flag"

\* C27: a manual decision by a reviewer or admin, well-formed, for an id of no
\* application is answered with a not-found error (404), and it appends no
\* AuditEvent and creates no Application.
C27_DecisionOnMissingIdNotFound ==
  [][(/\ response'.kind = "decision"
      /\ response'.id # 0
      /\ response'.id \notin AppIds
      /\ response'.code \notin {400, 401, 403}) =>
        /\ response'.code = 404
        /\ auditEvents' = auditEvents
        /\ applications' = applications
    ]_vars

\* The last status write of an application was a manual decision.
manuallyDecided(id) ==
  /\ statusWrites[id] # <<>>
  /\ statusWrites[id][Len(statusWrites[id])].by = "manual"

\* C28: once a manual decision has set an application's status, no step changes
\* the status but another manual decision: the workflow of the create request
\* never overwrites it, under any interleaving.
C28_ManualDecisionNotOverwritten ==
  [][\A id \in AppIds :
       manuallyDecided(id) =>
         \/ applications'[id].status = applications[id].status
         \/ statusWrites'[id][Len(statusWrites'[id])].by = "manual"
    ]_vars

\* The status the newest status-bearing AuditEvent of an application records;
\* submitted when it has none.
auditedStatus(id) ==
  LET log == auditEvents[id]
      bearing == {i \in 1..Len(log) :
                    log[i].action \in {"status_changed", "workflow_decision", "manual_decision"}}
  IN  IF bearing = {} THEN "submitted"
      ELSE LET e == log[CHOOSE i \in bearing : \A j \in bearing : j <= i] IN
             IF e.action = "manual_decision" THEN e.metadata.decision ELSE e.metadata.status

\* C29: whenever no request is in progress, the status of every application is
\* the one its most recently appended status-bearing AuditEvent records,
\* whatever the interleaving of manual decisions and workflow runs was.
C29_AuditTrailAgreesWithStatus ==
  Quiescent => \A id \in AppIds : applications[id].status = auditedStatus(id)

\* The status that corresponds to a recommended action.
statusOfAction(recommendedAction) ==
  CASE recommendedAction = "approve" -> "approved"
    [] recommendedAction = "manual_review" -> "under_review"
    [] recommendedAction = "flag" -> "flagged"

\* C30: when the fallback scorer scored, the status the workflow writes is the
\* one its recommendedAction stands for (approve: approved, manual_review:
\* under_review, flag: flagged): the score thresholds 0.4 and 0.7 never give a
\* fallback result another status.
C30_FallbackStatusFollowsAction ==
  \A p \in Procs :
    (fallbackScored(p) /\ pc[p] \in {"wf_audit3", "cr_refresh"}) =>
      LET result == loc[p].aiResult[1] IN
        /\ result.recommendedAction \in {"approve", "manual_review", "flag"}
        /\ loc[p].nextStatus = statusOfAction(result.recommendedAction)
        /\ applications[loc[p].id].status = statusOfAction(result.recommendedAction)
        /\ result.recommendedAction = "approve" => result.fraudScore < 40
        /\ result.recommendedAction = "manual_review" => result.fraudScore < 70

\* One high and two medium signals: the highest score short of a flag.
C30_Witness ==
  \E p \in Procs :
    /\ fallbackScored(p)
    /\ pc[p] = "cr_refresh"
    /\ loc[p].aiResult[1].fraudScore = 55
    /\ loc[p].aiResult[1].recommendedAction = "manual_review"
    /\ applications[loc[p].id].status = "under_review"

====
